---- MODULE Spec2Model ----
(***************************************************************************)
(* A model of bot/cogs/off_topic_names.py: the OffTopicName converter, the *)
(* update_names background task, and the OffTopicNames cog with its        *)
(* on_ready / cog_unload handlers and its add, delete, list and search     *)
(* commands.                                                               *)
(*                                                                         *)
(* A Python str is a sequence of characters; a character is a TLA+ string  *)
(* naming it: an ASCII character stands for itself, a non-ASCII character  *)
(* is written "u" followed by its code point in hexadecimal ("u60" is the  *)
(* backtick).                                                              *)
(***************************************************************************)
EXTENDS Integers, Sequences, FiniteSets, TLC

VARIABLES
    now,            \* the UTC wall clock, in ticks since midnight of day 0
    updater_task,   \* OffTopicNames.updater_task: 0 is None, k is tasks[k]
    tasks,          \* every task loop.create_task has made, in order
    channel_name,   \* the display name of the channel of each slot 0, 1, 2
    store,          \* the names held by the remote bot/off-topic-channel-names
    last,           \* what the most recent command invocation did
    conv            \* a pair of arguments under conversion, and the results

vars == <<now, updater_task, tasks, channel_name, store, last, conv>>

(***************************************************************************)
(* Bounds of the model.                                                    *)
(***************************************************************************)
TicksPerSecond == 2   \* clock resolution (the real clock has 10^6 per second)
MaxDays == 2          \* the updater is followed up to this many days
MaxShort == 2         \* strings up to this length are enumerated in full
MaxStore == 1         \* the remote store holds at most this many names

\* Ticks the clock may advance between two consecutive reads, and ticks a
\* wake-up may come late by.
Jitter == {0, 1}

\* Ticks a remote call (the fetch, an edit) may take.
Latency == {1}

(***************************************************************************)
(* Characters.                                                             *)
(***************************************************************************)
Upper == <<"A", "B", "C", "D", "E", "F", "G", "H", "I", "J", "K", "L", "M",
           "N", "O", "P", "Q", "R", "S", "T", "U", "V", "W", "X", "Y", "Z">>

\* MATHEMATICAL SANS-SERIF CAPITAL A .. Z
Sans == <<"u1D5A0", "u1D5A1", "u1D5A2", "u1D5A3", "u1D5A4", "u1D5A5", "u1D5A6",
          "u1D5A7", "u1D5A8", "u1D5A9", "u1D5AA", "u1D5AB", "u1D5AC", "u1D5AD",
          "u1D5AE", "u1D5AF", "u1D5B0", "u1D5B1", "u1D5B2", "u1D5B3", "u1D5B4",
          "u1D5B5", "u1D5B6", "u1D5B7", "u1D5B8", "u1D5B9">>

Rep(c, n) == [i \in 1..n |-> c]

\* Every str over alphabet of length 0..n.
Strings(alphabet, n) == UNION {[1..k -> alphabet] : k \in 0..n}

Range(s) == {s[i] : i \in 1..Len(s)}

\* The position of the first occurrence of c in s, 0 when there is none.
IndexOf(c, s) ==
    IF c \in Range(s) THEN CHOOSE i \in 1..Len(s) : s[i] = c /\ \A j \in 1..(i-1) : s[j] # c
    ELSE 0

Lower == {"a", "b"}
Digits == {"1"}

\* str.isalnum on one character: letters and digits of any script.  The
\* sans-serif capitals are letters (Lu) and so is U+01C3 (Lo); U+FF1F and
\* U+2019 are punctuation.
AlnumChars == Range(Upper) \cup Lower \cup Digits \cup Range(Sans) \cup {"u1C3"}

isalnum(c) == c \in AlnumChars

\* ord(c), the order Python compares strings by.
ord(c) ==
    IF c \in Range(Upper) THEN 64 + IndexOf(c, Upper)
    ELSE IF c \in Range(Sans) THEN 120223 + IndexOf(c, Sans)
    ELSE CASE c = " " -> 32
           [] c = "!" -> 33
           [] c = "#" -> 35
           [] c = "'" -> 39
           [] c = "-" -> 45
           [] c = "1" -> 49
           [] c = "?" -> 63
           [] c = "u60" -> 96
           [] c = "a" -> 97
           [] c = "b" -> 98
           [] c = "u1C3" -> 451
           [] c = "u2019" -> 8217
           [] c = "u2022" -> 8226
           [] c = "uFF1F" -> 65311

(***************************************************************************)
(* OffTopicName.convert                                                    *)
(***************************************************************************)
MinNameLen == 2
MaxNameLen == 96

allowed_characters == Upper \o <<"!", "?", "'", "u60", "-">>

substitutesBangAsApostrophe == Sans \o <<"u2019", "uFF1F", "u2019", "u2019", "-">>

\* The second argument of str.maketrans.
substitutes == Sans \o <<"u1C3", "uFF1F", "u2019", "u2019", "-">>

\* str.maketrans(allowed_characters, substitutes)
table == [c \in Range(allowed_characters) |-> substitutes[IndexOf(c, allowed_characters)]]

\* str.translate on one character: a character that is no key of the table
\* stays as it is.
TranslateChar(c) == IF c \in DOMAIN table THEN table[c] ELSE c

translate(argument) == [i \in 1..Len(argument) |-> TranslateChar(argument[i])]

LengthOkNoLowerBound(argument) == Len(argument) <= MaxNameLen

LengthOk(argument) == MinNameLen <= Len(argument) /\ Len(argument) <= MaxNameLen

AllowedChars == Range(allowed_characters)

CharOk(c) == isalnum(c) \/ c \in AllowedChars

\* convert either raises BadArgument (err is "length" or "characters") or
\* returns the translated argument.
convert(argument) ==
    IF ~LengthOk(argument)
    THEN [err |-> "length", value |-> <<>>]
    ELSE IF ~(\A i \in 1..Len(argument) : CharOk(argument[i]))
    THEN [err |-> "characters", value |-> <<>>]
    ELSE [err |-> "none", value |-> translate(argument)]

(***************************************************************************)
(* Clock arithmetic of update_names.  Times are in ticks.                  *)
(***************************************************************************)
SecondsPerDay == 86400

TicksPerDay == SecondsPerDay * TicksPerSecond

\* datetime.replace(microsecond=0, second=0, minute=0, hour=0)
today_at_midnight(t) == t - (t % TicksPerDay)

\* today_at_midnight + timedelta(days=1)
next_midnight(t) == today_at_midnight(t) + TicksPerDay

\* timedelta.seconds of a difference d: a timedelta is normalised to days,
\* 0 <= seconds < 86400 and 0 <= microseconds < 10^6, and .seconds is the
\* middle field alone.
timedelta_seconds(d) == (d \div TicksPerSecond) % SecondsPerDay

\* seconds_to_sleep, from the clock reading t1 that next_midnight is computed
\* from and the later reading t2 that is subtracted from it.
seconds_to_sleep(t1, t2) == timedelta_seconds(next_midnight(t1) - t2) + 1

(***************************************************************************)
(* The updater task.  pc is the await the coroutine is suspended at:       *)
(*   "start"     created, not yet run                                      *)
(*   "sleeping"  asyncio.sleep(seconds_to_sleep)                           *)
(*   "fetching"  bot.api_client.get(..., random_items=3)                   *)
(*   "editing"   channel_<slot>.edit(name=...)                             *)
(*   "cancelled" ended by Task.cancel                                      *)
(*   "crashed"   ended by an exception that left the coroutine             *)
(* A task that has ended keeps nothing but its pc: its frame is gone.      *)
(* The fields after names record the run so far: what the fetch of the     *)
(* current cycle returned, the two clock readings of the last sleep        *)
(* computation, the time and outcome of the fetch of the current cycle and *)
(* of the one before, the channel names when the fetch was issued, the     *)
(* slots renamed since, and whether the cycle ran through.                 *)
(***************************************************************************)
NoNames == <<>>

NewTask ==
    [pc |-> "start", slot |-> 0, seconds_to_sleep |-> 0, wake_at |-> 0,
     names |-> NoNames, fetched |-> NoNames,
     read1 |-> 0, read2 |-> 0,
     fetch_at |-> -1, outcome |-> "none",
     prev_fetch_at |-> -1, prev_outcome |-> "none",
     before |-> <<>>, renamed |-> {}, completed |-> FALSE]

Ended(how) == [NewTask EXCEPT !.pc = how]

Slots == {0, 1, 2}

DigitChar(i) == CASE i = 0 -> "0" [] i = 1 -> "1" [] i = 2 -> "2"

ChannelNameOneBased(slot, name) == <<"o", "t", DigitChar((slot + 1) % 3), "-">> \o name

\* f'ot{slot}-{name}'
ChannelName(slot, name) == <<"o", "t", DigitChar(slot), "-">> \o name

\* The names a successful fetch hands back.
NameA == <<"a", "b">>
NameB == translate(<<"A", "B">>)
NameC == <<"b", "1", "-", "a">>
FetchTriples == {<<NameA, NameB, NameC>>, <<NameC, NameA, NameB>>}

\* Lines 48-51: compute the sleep and suspend in asyncio.sleep.
EnterSleep(task, t1, t2) ==
    [task EXCEPT !.pc = "sleeping",
                 !.seconds_to_sleep = seconds_to_sleep(t1, t2),
                 !.wake_at = t2 + seconds_to_sleep(t1, t2) * TicksPerSecond,
                 !.read1 = t1, !.read2 = t2]

\* Lines 57-59: the except branch logs and continues with the next iteration.
AfterFetchErrorSkipsContinue(task, t1, t2) ==
    [task EXCEPT !.pc = "editing", !.slot = 0, !.outcome = "error"]

AfterFetchError(task, t1, t2) ==
    EnterSleep([task EXCEPT !.outcome = "error"], t1, t2)

\* Line 54-56 returning: unpack the three names, look the channels up, and
\* suspend in the first edit.
AfterFetchOk(task, triple) ==
    [task EXCEPT !.pc = "editing", !.slot = 0, !.outcome = "ok", !.names = triple]

Running(task) == task.pc \notin {"cancelled", "crashed"}

Max(a, b) == IF a >= b THEN a ELSE b

\* The task runs for the first time: the first iteration up to its sleep.
UpdaterStart(k) ==
    /\ tasks[k].pc = "start"
    /\ \E j \in Jitter :
         /\ now' = now + j
         /\ tasks' = [tasks EXCEPT ![k] = EnterSleep(tasks[k], now, now + j)]
    /\ UNCHANGED <<updater_task, channel_name, store, last, conv>>

\* asyncio.sleep returns, at its due time or later, and the fetch is issued.
UpdaterWake(k) ==
    /\ tasks[k].pc = "sleeping"
    /\ tasks[k].wake_at \div TicksPerDay <= MaxDays
    /\ \E late \in Jitter :
         LET t == Max(now, tasks[k].wake_at + late)
         IN /\ now' = t
            /\ tasks' = [tasks EXCEPT ![k] =
                   [tasks[k] EXCEPT !.pc = "fetching",
                                    !.prev_fetch_at = tasks[k].fetch_at,
                                    !.prev_outcome = tasks[k].outcome,
                                    !.fetch_at = t, !.outcome = "pending",
                                    !.before = channel_name, !.fetched = NoNames,
                                    !.renamed = {}, !.completed = FALSE]]
    /\ UNCHANGED <<updater_task, channel_name, store, last, conv>>

\* The fetch returns three names.
UpdaterFetchOk(k) ==
    /\ tasks[k].pc = "fetching"
    /\ \E lat \in Latency, triple \in FetchTriples :
         /\ now' = now + lat
         /\ tasks' = [tasks EXCEPT ![k] =
                [AfterFetchOk(tasks[k], triple) EXCEPT !.fetched = triple]]
    /\ UNCHANGED <<updater_task, channel_name, store, last, conv>>

\* The fetch raises ResponseCodeError.
UpdaterFetchError(k) ==
    /\ tasks[k].pc = "fetching"
    /\ \E lat \in Latency, j \in Jitter :
         /\ now' = now + lat + j
         /\ tasks' = [tasks EXCEPT ![k] =
                AfterFetchError(tasks[k], now + lat, now + lat + j)]
    /\ UNCHANGED <<updater_task, channel_name, store, last, conv>>

\* Lines 62-64: the edit of the current slot returns; the next edit is
\* issued, or after the third the iteration ends and the next one sleeps.
UpdaterEditOk(k) ==
    /\ tasks[k].pc = "editing"
    /\ LET task == tasks[k]
           done == [task EXCEPT !.renamed = task.renamed \cup {task.slot}]
       IN /\ channel_name' = [channel_name EXCEPT ![task.slot] =
                                 ChannelName(task.slot, task.names[task.slot + 1])]
          /\ \E lat \in Latency, j \in Jitter :
               IF task.slot < 2
               THEN /\ now' = now + lat
                    /\ tasks' = [tasks EXCEPT ![k] = [done EXCEPT !.slot = task.slot + 1]]
               ELSE /\ now' = now + lat + j
                    /\ tasks' = [tasks EXCEPT ![k] =
                           EnterSleep([done EXCEPT !.completed = TRUE],
                                      now + lat, now + lat + j)]
    /\ UNCHANGED <<updater_task, store, last, conv>>

\* The edit of the current slot raises (discord.HTTPException: forbidden,
\* rate limited, ...).  Nothing in update_names catches it.
UpdaterEditRaises(k) ==
    /\ tasks[k].pc = "editing"
    /\ \E lat \in Latency : now' = now + lat
    /\ tasks' = [tasks EXCEPT ![k] = Ended("crashed")]
    /\ UNCHANGED <<updater_task, channel_name, store, last, conv>>

(***************************************************************************)
(* The cog's handlers.                                                     *)
(***************************************************************************)
\* Line 86: the guard of on_ready.
StartsAlways == TRUE

HandleIsNone == updater_task = 0

on_ready ==
    /\ IF HandleIsNone
       THEN /\ tasks' = Append(tasks, NewTask)
            /\ updater_task' = Len(tasks) + 1
       ELSE UNCHANGED <<tasks, updater_task>>
    /\ UNCHANGED <<now, channel_name, store, last, conv>>

\* Task.cancel throws CancelledError into the coroutine at the await it is
\* suspended at; a task that has ended is left alone.  An edit request that
\* is in flight may or may not have reached the server.
cog_unload ==
    /\ IF updater_task # 0 /\ Running(tasks[updater_task])
       THEN \E landed \in BOOLEAN :
              LET task == tasks[updater_task]
                  hit == landed /\ task.pc = "editing"
              IN /\ channel_name' =
                        IF hit
                        THEN [channel_name EXCEPT ![task.slot] =
                                 ChannelName(task.slot, task.names[task.slot + 1])]
                        ELSE channel_name
                 /\ tasks' = [tasks EXCEPT ![updater_task] = Ended("cancelled")]
       ELSE UNCHANGED <<tasks, channel_name>>
    /\ UNCHANGED <<now, updater_task, store, last, conv>>

(***************************************************************************)
(* Strings: comparison, sorting, joining, searching.                       *)
(***************************************************************************)
Min(a, b) == IF a <= b THEN a ELSE b

\* s < t for two str: by code point, a proper prefix first.
StrLess(s, t) ==
    \E i \in 1..(Min(Len(s), Len(t)) + 1) :
        /\ \A j \in 1..(i - 1) : s[j] = t[j]
        /\ \/ i > Len(s) /\ i <= Len(t)
           \/ i <= Len(s) /\ i <= Len(t) /\ ord(s[i]) < ord(t[i])

RECURSIVE sorted(_)
\* sorted(S) of a collection of distinct str
sorted(S) ==
    IF S = {} THEN <<>>
    ELSE LET m == CHOOSE x \in S : \A y \in S \ {x} : StrLess(x, y)
         IN <<m>> \o sorted(S \ {m})

RECURSIVE joinReversed(_, _)
joinReversed(sep, names) ==
    IF Len(names) = 0 THEN <<>>
    ELSE IF Len(names) = 1 THEN names[1]
    ELSE joinReversed(sep, Tail(names)) \o sep \o names[1]

RECURSIVE join(_, _)
\* sep.join(names)
join(sep, names) ==
    IF Len(names) = 0 THEN <<>>
    ELSE IF Len(names) = 1 THEN names[1]
    ELSE names[1] \o sep \o join(sep, Tail(names))

\* query in name
Contains(name, query) ==
    \E i \in 0..(Len(name) - Len(query)) :
        \A d \in 1..Len(query) : name[i + d] = query[d]

(***************************************************************************)
(* difflib.SequenceMatcher(None, a, b) without junk (autojunk acts only on *)
(* sequences of 200 elements or more).  Positions are counted from 0, a    *)
(* range [lo, hi) excludes hi.                                             *)
(***************************************************************************)
\* The blocks a[i:i+k] == b[j:j+k], k >= 1, inside a[alo:ahi] and b[blo:bhi].
Blocks(a, alo, ahi, b, blo, bhi) ==
    {m \in (alo..(ahi - 1)) \X (blo..(bhi - 1)) \X (1..Min(ahi - alo, bhi - blo)) :
        /\ m[1] + m[3] <= ahi
        /\ m[2] + m[3] <= bhi
        /\ \A d \in 1..m[3] : a[m[1] + d] = b[m[2] + d]}

\* find_longest_match: the longest block; of those, the one that starts
\* earliest in a; of those, the one that starts earliest in b.
find_longest_match(a, alo, ahi, b, blo, bhi) ==
    LET B == Blocks(a, alo, ahi, b, blo, bhi)
    IN IF B = {} THEN <<alo, blo, 0>>
       ELSE CHOOSE m \in B : \A o \in B :
                \/ m[3] > o[3]
                \/ m[3] = o[3] /\ m[1] < o[1]
                \/ m[3] = o[3] /\ m[1] = o[1] /\ m[2] <= o[2]

RECURSIVE matches(_, _, _, _, _, _)
\* The sum of the sizes of get_matching_blocks: the longest match, then the
\* same to its left and to its right.
matches(a, alo, ahi, b, blo, bhi) ==
    LET m == find_longest_match(a, alo, ahi, b, blo, bhi)
    IN IF m[3] = 0 THEN 0
       ELSE m[3]
            + (IF alo < m[1] /\ blo < m[2] THEN matches(a, alo, m[1], b, blo, m[2]) ELSE 0)
            + (IF m[1] + m[3] < ahi /\ m[2] + m[3] < bhi
               THEN matches(a, m[1] + m[3], ahi, b, m[2] + m[3], bhi) ELSE 0)

\* ratio() = 2.0 * matches / (len(a) + len(b)), kept as the pair
\* <<numerator, denominator>>.  An empty pair of sequences has ratio 1.
ratio(a, b) ==
    IF Len(a) + Len(b) = 0 THEN <<1, 1>>
    ELSE <<2 * matches(a, 0, Len(a), b, 0, Len(b)), Len(a) + Len(b)>>

CloseMatchesN == 10
CutoffPercent == 70

\* ratio >= cutoff.  real_quick_ratio and quick_ratio are upper bounds of
\* ratio, so the three tests of get_close_matches are this one.
AtLeastCutoff(r) == r[1] * 100 >= CutoffPercent * r[2]

\* (score, x) > (score', y), the order heapq.nlargest ranks by; rx and ry
\* are the scores of x and y.
Outranks(rx, x, ry, y) ==
    \/ rx[1] * ry[2] > ry[1] * rx[2]
    \/ rx[1] * ry[2] = ry[1] * rx[2] /\ StrLess(y, x)

get_close_matches_uncapped(word, possibilities) ==
    {x \in Range(possibilities) : AtLeastCutoff(ratio(x, word))}

\* difflib.get_close_matches(word, possibilities, n=10, cutoff=0.70), as the
\* set of the names it returns: the n best of those that reach the cutoff.
get_close_matches(word, possibilities) ==
    LET score == [x \in Range(possibilities) |-> ratio(x, word)]
        good == {x \in Range(possibilities) : AtLeastCutoff(score[x])}
    IN {x \in good :
          Cardinality({y \in good : Outranks(score[y], y, score[x], x)}) < CloseMatchesN}

(***************************************************************************)
(* The commands.  The framework converts every argument with               *)
(* OffTopicName.convert, in order, before it calls the command; the first  *)
(* BadArgument ends the invocation.  last records one invocation: the      *)
(* command, the error that ended it ("none", a BadArgument kind, or        *)
(* "response" for a ResponseCodeError of the remote call), the raw         *)
(* arguments, the remote requests issued and the messages sent.            *)
(***************************************************************************)
NoCommand == [op |-> "none", err |-> "none", args |-> <<>>, requests |-> <<>>, sent |-> <<>>]

\* The error of the first argument that does not convert, "none" if all do.
FirstError(args) ==
    LET err == [i \in 1..Len(args) |-> convert(args[i]).err]
    IN IF \A i \in 1..Len(args) : err[i] = "none" THEN "none"
       ELSE err[CHOOSE i \in 1..Len(args) :
                   err[i] # "none" /\ \A j \in 1..(i - 1) : err[j] = "none"]

Converted(args) == [i \in 1..Len(args) |-> convert(args[i]).value]

Rejected(op, args) ==
    /\ last' = [op |-> op, err |-> FirstError(args), args |-> args,
                requests |-> <<>>, sent |-> <<>>]
    /\ UNCHANGED store

\* Lines 101 and 115: chain multiple words to a single one.
ChainedName(names) == join(<<"-">>, names)

\* '• ' + name
Bullet(name) == <<"u2022", " ">> \o name

\* The remote store holds a bounded number of names; a POST it has no room
\* for is answered with an error status.
HasRoom(name) == name \in store \/ Cardinality(store) < MaxStore

add_command(args) ==
    /\ IF FirstError(args) # "none" THEN Rejected("add", args)
       ELSE LET name == ChainedName(Converted(args))
                post == [verb |-> "POST", name |-> name]
            IN \E accepted \in BOOLEAN :
                 IF accepted /\ HasRoom(name)
                 THEN /\ store' = store \cup {name}
                      /\ last' = [op |-> "add", err |-> "none", args |-> args,
                                  requests |-> <<post>>,
                                  sent |-> <<[text |-> "Added", name |-> name]>>]
                 ELSE /\ store' = store
                      /\ last' = [op |-> "add", err |-> "response", args |-> args,
                                  requests |-> <<post>>, sent |-> <<>>]
    /\ UNCHANGED <<now, updater_task, tasks, channel_name, conv>>

delete_command(args) ==
    /\ IF FirstError(args) # "none" THEN Rejected("delete", args)
       ELSE LET name == ChainedName(Converted(args))
                del == [verb |-> "DELETE", name |-> name]
            IN \E accepted \in BOOLEAN :
                 IF accepted /\ name \in store
                 THEN /\ store' = store \ {name}
                      /\ last' = [op |-> "delete", err |-> "none", args |-> args,
                                  requests |-> <<del>>,
                                  sent |-> <<[text |-> "Removed", name |-> name]>>]
                 ELSE /\ store' = store
                      /\ last' = [op |-> "delete", err |-> "response", args |-> args,
                                  requests |-> <<del>>, sent |-> <<>>]
    /\ UNCHANGED <<now, updater_task, tasks, channel_name, conv>>

\* The answer to GET bot/off-topic-channel-names: the stored names as a list.
GetAll == [verb |-> "GET", name |-> <<>>]

Descending(seq) == [i \in 1..Len(seq) |-> seq[Len(seq) + 1 - i]]

StoreLists == {sorted(store), Descending(sorted(store))}

\* Lines 132-142.
list_command ==
    /\ \E result \in StoreLists, answered \in BOOLEAN :
         IF answered
         THEN last' = [op |-> "list", err |-> "none", args |-> <<>>,
                       requests |-> <<GetAll>>,
                       sent |-> IF Len(result) > 0
                                THEN <<[text |-> "paginate",
                                        lines |-> sorted({Bullet(result[i]) : i \in 1..Len(result)})]>>
                                ELSE <<[text |-> "nothing here yet", lines |-> <<>>]>>]
         ELSE last' = [op |-> "list", err |-> "response", args |-> <<>>,
                       requests |-> <<GetAll>>, sent |-> <<>>]
    /\ UNCHANGED <<now, updater_task, tasks, channel_name, store, conv>>

in_matches(query, result) == {result[i] : i \in {j \in 1..Len(result) : Contains(result[j], query)}}

\* Lines 149-151.
SearchLines(query, result) ==
    sorted({Bullet(name) : name \in in_matches(query, result) \cup get_close_matches(query, result)})

\* Lines 148-161.
search_command(arg) ==
    /\ IF FirstError(<<arg>>) # "none" THEN Rejected("search", <<arg>>)
       ELSE /\ \E result \in StoreLists, answered \in BOOLEAN :
                 IF answered
                 THEN LET lines == SearchLines(convert(arg).value, result)
                      IN last' = [op |-> "search", err |-> "none", args |-> <<arg>>,
                                  requests |-> <<GetAll>>,
                                  sent |-> IF Len(lines) > 0
                                           THEN <<[text |-> "paginate", lines |-> lines]>>
                                           ELSE <<[text |-> "Nothing found.", lines |-> <<>>]>>]
                 ELSE last' = [op |-> "search", err |-> "response", args |-> <<arg>>,
                               requests |-> <<GetAll>>, sent |-> <<>>]
            /\ UNCHANGED store
    /\ UNCHANGED <<now, updater_task, tasks, channel_name, conv>>

(***************************************************************************)
(* Inputs.                                                                 *)
(***************************************************************************)
FOO == <<"F", "O", "O">>
BAR == <<"B", "A", "R">>
APPLE == <<"A", "P", "P", "L", "E">>
APPLETREE == <<"A", "P", "P", "L", "E", "T", "R", "E", "E">>
BANANA == <<"B", "A", "N", "A", "N", "A">>

\* Arguments of the commands that run beside the updater.
FewTokens == {NameA, <<"A">>}
FewArgLists == {<<t>> : t \in FewTokens}

(***************************************************************************)
(* The cog beside its updater: ready events, unloads, the steps of the     *)
(* updater task and commands.                                              *)
(***************************************************************************)
Noon == (SecondsPerDay \div 2) * TicksPerSecond

\* The moments the bot may become ready at: midnight sharp, just after it,
\* midday, the last whole second of the day, a fraction into it, and the
\* last tick of the day.
StartClocks == {0, 1, Noon, TicksPerDay - TicksPerSecond,
                TicksPerDay - TicksPerSecond + 1, TicksPerDay - 1}

NoConv == [argument |-> <<>>, result |-> <<>>]

OldChannelNames == [i \in Slots |-> <<"o", "l", "d", DigitChar(i)>>]

Init ==
    /\ now \in StartClocks
    /\ updater_task = 0
    /\ tasks = <<>>
    /\ channel_name = OldChannelNames
    /\ store = {}
    /\ last = NoCommand
    /\ conv = NoConv

Next ==
    \/ on_ready
    \/ cog_unload
    \/ \E k \in 1..Len(tasks) : UpdaterStart(k)
    \/ \E k \in 1..Len(tasks) : UpdaterWake(k)
    \/ \E k \in 1..Len(tasks) : UpdaterFetchOk(k)
    \/ \E k \in 1..Len(tasks) : UpdaterFetchError(k)
    \/ \E k \in 1..Len(tasks) : UpdaterEditOk(k)
    \/ \E k \in 1..Len(tasks) : UpdaterEditRaises(k)
    \/ \E args \in FewArgLists : add_command(args)
    \/ \E args \in FewArgLists : delete_command(args)
    \/ list_command
    \/ \E arg \in FewTokens : search_command(arg)

Spec == Init /\ [][Next]_vars

(***************************************************************************)
(* The commands on their own, with a wider range of arguments: while the   *)
(* updater, if started, stays in its first sleep.                          *)
(***************************************************************************)
\* Tokens: two valid ones, one too short, one with a character that is not
\* allowed, one too short that also has such a character, one too long.
Tokens == {FOO, BAR, <<"A">>, <<"a", "#">>, <<"#">>, Rep("a", MaxNameLen + 1)}

\* Zero, one or two tokens.
ArgLists == {<<>>} \cup {<<t>> : t \in Tokens} \cup {<<t, u>> : t \in Tokens, u \in {FOO, BAR, <<"A">>}}

InitCommands ==
    /\ now = Noon
    /\ updater_task = 0
    /\ tasks = <<>>
    /\ channel_name = OldChannelNames
    /\ store = {}
    /\ last = NoCommand
    /\ conv = NoConv

NextCommands ==
    \/ on_ready
    \/ cog_unload
    \/ \E k \in 1..Len(tasks) : UpdaterStart(k)
    \/ \E args \in ArgLists : add_command(args)
    \/ \E args \in ArgLists : delete_command(args)
    \/ list_command
    \/ \E arg \in Tokens : search_command(arg)

SpecCommands == InitCommands /\ [][NextCommands]_vars

(***************************************************************************)
(* Searching and listing a remote store that already holds names.          *)
(***************************************************************************)
NameQ == <<"a", "b", "1">>

\* Ten names that hold "ab1" and are close to it (ratio 6/7).
Suffixes == {"a", "b", "1", "-", "u2019", "u1C3", "uFF1F", "u1D5A0", "u1D5A1", "u1D5A2"}
CloseAndIn == {NameQ \o <<c>> : c \in Suffixes}

\* Close to "ab1" (ratio 6/8) without holding it.
CloseOnly == <<"a", "1", "b", "1", "1">>

\* Holds "ab1" without being close to it (ratio 6/12).
InOnly == NameQ \o Rep("a", 6)

Fruit == {translate(APPLE), translate(APPLETREE), translate(BANANA)}

Pool == CloseAndIn \cup {CloseOnly, InOnly} \cup Fruit

SearchStores ==
    {S \in SUBSET Pool : Cardinality(S) <= 2}
        \cup {Fruit}
        \cup {Pool \ R : R \in SUBSET {NameQ \o <<"a">>, CloseOnly, InOnly}}

SearchQueries == {NameQ, APPLE, <<"b", "b">>, <<"A">>}

InitSearch ==
    /\ now = Noon
    /\ updater_task = 0
    /\ tasks = <<>>
    /\ channel_name = OldChannelNames
    /\ store \in SearchStores
    /\ last = NoCommand
    /\ conv = NoConv

NextSearch ==
    \/ \E arg \in SearchQueries : search_command(arg)
    \/ list_command

SpecSearch == InitSearch /\ [][NextSearch]_vars

(***************************************************************************)
(* OffTopicName.convert on its own: two arguments are drawn and converted. *)
(***************************************************************************)
ConvAlphabet == {"A", "a", "!", "'", "u60", "#", "u1D5A0"}

ConvInputs ==
    Strings(ConvAlphabet, MaxShort)
        \cup {Rep("a", MaxNameLen), Rep("a", MaxNameLen + 1),
              Rep("A", MaxNameLen), Rep("#", MaxNameLen + 1),
              Rep("a", MaxNameLen - 1) \o <<"'">>, Rep("a", MaxNameLen - 1) \o <<"u60">>}

InitConvert ==
    /\ now = Noon
    /\ updater_task = 0
    /\ tasks = <<>>
    /\ channel_name = OldChannelNames
    /\ store = {}
    /\ last = NoCommand
    /\ conv \in {[argument |-> <<a, b>>, result |-> <<>>] : a \in ConvInputs, b \in ConvInputs}

ConvertBoth ==
    /\ conv.result = <<>>
    /\ conv' = [conv EXCEPT !.result = <<convert(conv.argument[1]), convert(conv.argument[2])>>]
    /\ UNCHANGED <<now, updater_task, tasks, channel_name, store, last>>

NextConvert == ConvertBoth

SpecConvert == InitConvert /\ [][NextConvert]_vars

(***************************************************************************)
(* Properties of the cog and its updater, checked under Spec.              *)
(***************************************************************************)
RunningTasks == {k \in 1..Len(tasks) : Running(tasks[k])}

\* C1: at most one updater task is ever created and at most one runs; the
\* handle is empty or names that task; an on_ready that finds the handle
\* empty creates the task, and an on_ready that finds a handle leaves the
\* handle and the tasks as they are.
C1_SingleUpdater ==
    /\ [](/\ Len(tasks) <= 1
          /\ Cardinality(RunningTasks) <= 1
          /\ updater_task = Len(tasks))
    /\ [][on_ready =>
            IF updater_task = 0
            THEN Len(tasks') = Len(tasks) + 1 /\ updater_task' = Len(tasks')
            ELSE UNCHANGED <<updater_task, tasks>>]_vars

\* A task was created, commands ran, and the cog was unloaded: the handle
\* still names the one task, which is cancelled.
C1_Witness ==
    /\ updater_task = 1
    /\ Len(tasks) = 1
    /\ tasks[1].pc = "cancelled"
    /\ last.op = "add"
    /\ last.err = "none"

\* C2: a fetch that fails with a response-code error renames no channel in
\* its cycle and is followed at once by the next sleep, with no second fetch;
\* the fetch after a failed one is issued only after the UTC midnight that
\* follows the failed one.
C2_FailedFetchSkipsCycle ==
    \A k \in 1..Len(tasks) :
        LET task == tasks[k]
        IN /\ task.outcome = "error" =>
                /\ task.pc = "sleeping"
                /\ task.renamed = {}
                /\ channel_name = task.before
                /\ task.wake_at > next_midnight(task.fetch_at)
           /\ task.prev_outcome = "error" =>
                task.fetch_at > next_midnight(task.prev_fetch_at)

\* A fetch failed, the task slept, and the next fetch has been issued.
C2_Witness ==
    \E k \in 1..Len(tasks) :
        /\ tasks[k].prev_outcome = "error"
        /\ tasks[k].pc = "fetching"
        /\ channel_name = OldChannelNames

\* C3: a task that was started and not cancelled is sleeping or updating,
\* whatever the fetch and the edits answered.
C3_NoTerminalState ==
    \A k \in 1..Len(tasks) :
        tasks[k].pc # "cancelled" =>
            tasks[k].pc \in {"start", "sleeping", "fetching", "editing"}

\* The whole seconds from t to the next UTC midnight.
WholeSecondsToMidnight(t) == (next_midnight(t) - t) \div TicksPerSecond

\* C4: a sleep computed from the clock reading t lasts the whole seconds
\* from t to the next UTC midnight plus one, and ends past that midnight.
C4_SleepsPastMidnight ==
    \A k \in 1..Len(tasks) :
        LET task == tasks[k]
        IN (task.pc = "sleeping" /\ task.read1 = task.read2) =>
              /\ task.seconds_to_sleep = WholeSecondsToMidnight(task.read2) + 1
              /\ task.wake_at > next_midnight(task.read2)

\* 'ot' + slot + '-' + name, spelled out.
ExpectedChannelName(slot, name) ==
    <<"o", "t">> \o <<CASE slot = 0 -> "0" [] slot = 1 -> "1" [] slot = 2 -> "2">>
        \o <<"-">> \o name

\* C5: in a cycle whose fetch returned names, the channels are renamed in
\* slot order 0, 1, 2; a renamed slot i carries 'ot' i '-' and the i-th name
\* of that fetch, a slot not yet renamed carries what it carried when the
\* fetch was issued; a completed cycle has renamed all three; and every
\* change of a channel name is the rename of the slot a task is editing, to
\* the name built from that task's fetch.
C5_RenamesInSlotOrder ==
    /\ [](\A k \in 1..Len(tasks) :
            LET task == tasks[k]
            IN task.outcome = "ok" =>
                 /\ task.names = task.fetched
                 /\ task.renamed = {i \in Slots : i < task.slot} \/ task.renamed = Slots
                 /\ task.pc = "editing" => task.renamed = {i \in Slots : i < task.slot}
                 /\ \A i \in task.renamed :
                        channel_name[i] = ExpectedChannelName(i, task.fetched[i + 1])
                 /\ \A i \in Slots \ task.renamed : channel_name[i] = task.before[i]
                 /\ task.completed <=> task.renamed = Slots
                 /\ task.completed => task.pc = "sleeping")
    /\ [][\A i \in Slots :
            channel_name'[i] # channel_name[i] =>
                \E k \in 1..Len(tasks) :
                    /\ tasks[k].pc = "editing"
                    /\ tasks[k].slot = i
                    /\ tasks[k].outcome = "ok"
                    /\ channel_name'[i] = ExpectedChannelName(i, tasks[k].fetched[i + 1])]_vars

\* A second cycle has completed with names other than the first cycle's.
C5_Witness ==
    \E k \in 1..Len(tasks) :
        /\ tasks[k].completed
        /\ tasks[k].prev_outcome = "ok"
        /\ tasks[k].fetched = <<NameC, NameA, NameB>>
        /\ channel_name[2] = <<"o", "t", "2", "-">> \o NameB

(***************************************************************************)
(* Properties of OffTopicName.convert, checked under SpecConvert.          *)
(***************************************************************************)
\* The allowed alphabet: letters, digits and ! ? ' backtick -
InAlphabet(c) == isalnum(c) \/ c \in {"!", "?", "'", "u60", "-"}

AsciiLetterOrDigit(c) == c \in Range(Upper) \cup Lower \cup Digits

InAsciiAlphabet(c) == AsciiLetterOrDigit(c) \/ c \in {"!", "?", "'", "u60", "-"}

InRange(argument) == 2 <= Len(argument) /\ Len(argument) <= 96

Over(argument, P(_)) == \A i \in 1..Len(argument) : P(argument[i])

\* The character the fixed table gives for c.
Substitute(c) ==
    IF c \in Range(Upper) THEN Sans[IndexOf(c, Upper)]
    ELSE CASE c = "!" -> "u1C3"
           [] c = "?" -> "uFF1F"
           [] c = "'" -> "u2019"
           [] c = "u60" -> "u2019"
           [] OTHER -> c

Substituted(argument, value) ==
    /\ Len(value) = Len(argument)
    /\ \A i \in 1..Len(argument) : value[i] = Substitute(argument[i])

\* C6 as stated: every argument over the allowed alphabet with a length in
\* [2, 96] converts to the string of its substituted characters, and two
\* distinct such arguments convert to distinct strings.
C6_Injective ==
    conv.result # <<>> =>
        LET a == conv.argument[1]
            b == conv.argument[2]
            ra == conv.result[1]
            rb == conv.result[2]
        IN (InRange(a) /\ Over(a, InAlphabet) /\ InRange(b) /\ Over(b, InAlphabet)) =>
              /\ ra.err = "none" /\ Substituted(a, ra.value)
              /\ rb.err = "none" /\ Substituted(b, rb.value)
              /\ a # b => ra.value # rb.value

\* The argument with every backtick replaced by an apostrophe.
FoldBacktick(argument) ==
    [i \in 1..Len(argument) |-> IF argument[i] = "u60" THEN "'" ELSE argument[i]]

\* C6 as amended: over ASCII letters, digits and ! ? ' backtick -, every
\* argument with a length in [2, 96] converts to the string of its
\* substituted characters, and two arguments convert to the same string
\* exactly when they are equal once backticks are read as apostrophes.
C6_InjectiveUpToBacktick ==
    conv.result # <<>> =>
        LET a == conv.argument[1]
            b == conv.argument[2]
            ra == conv.result[1]
            rb == conv.result[2]
        IN (InRange(a) /\ Over(a, InAsciiAlphabet) /\ InRange(b) /\ Over(b, InAsciiAlphabet)) =>
              /\ ra.err = "none" /\ Substituted(a, ra.value)
              /\ rb.err = "none" /\ Substituted(b, rb.value)
              /\ ra.value = rb.value <=> FoldBacktick(a) = FoldBacktick(b)

\* Two arguments of the greatest length that differ in one character, an
\* apostrophe against a backtick, have been converted to the same string.
C6_Witness ==
    /\ conv.result # <<>>
    /\ conv.argument = <<Rep("a", 95) \o <<"'">>, Rep("a", 95) \o <<"u60">>>>
    /\ conv.result[1].err = "none"
    /\ conv.result[1].value = Rep("a", 95) \o <<"u2019">>
    /\ conv.result[2] = conv.result[1]

(***************************************************************************)
(* Properties of the commands, checked under SpecCommands.                 *)
(***************************************************************************)
TooShortOrLong(argument) == Len(argument) < 2 \/ Len(argument) > 96

Invalid(argument) == TooShortOrLong(argument) \/ ~Over(argument, InAlphabet)

\* The first argument of args that is not a valid token.
FirstInvalid(args) ==
    args[CHOOSE i \in 1..Len(args) :
            Invalid(args[i]) /\ \A j \in 1..(i - 1) : ~Invalid(args[j])]

\* C7: an add, delete or search given a token whose length is outside
\* [2, 96] or that has a character outside the allowed alphabet ends with the
\* error of that token (the length error when its length is out of range,
\* the characters error otherwise), issues no request and sends nothing; the
\* step leaves the store, the channels, the handle and the tasks unchanged.
C7_InvalidTokenNoEffect ==
    /\ []((last.op \in {"add", "delete", "search"}
             /\ \E i \in 1..Len(last.args) : Invalid(last.args[i])) =>
            /\ last.err = IF TooShortOrLong(FirstInvalid(last.args))
                          THEN "length" ELSE "characters"
            /\ last.requests = <<>>
            /\ last.sent = <<>>)
    /\ [][(last' # last /\ \E i \in 1..Len(last'.args) : Invalid(last'.args[i])) =>
            UNCHANGED <<store, channel_name, updater_task, tasks, now>>]_vars

\* An add of two tokens, the first with a character that is not allowed, was
\* refused while the store held a name and the updater slept.
C7_Witness ==
    /\ last.op = "add"
    /\ last.args = <<<<"a", "#">>, FOO>>
    /\ last.err = "characters"
    /\ store # {}
    /\ updater_task # 0
    /\ tasks[updater_task].pc = "sleeping"

\* The sanitized tokens chained with '-' in the order given, spelled out for
\* up to two tokens.
ExpectedName(args) ==
    CASE Len(args) = 0 -> <<>>
      [] Len(args) = 1 -> [i \in 1..Len(args[1]) |-> Substitute(args[1][i])]
      [] Len(args) = 2 -> [i \in 1..Len(args[1]) |-> Substitute(args[1][i])]
                             \o <<"-">>
                             \o [i \in 1..Len(args[2]) |-> Substitute(args[2][i])]

\* C8: an add (a delete) whose tokens are all valid issues exactly one POST
\* (DELETE), with the name made of the sanitized tokens chained with '-' in
\* the order given; an accepted add leaves that name in the store and
\* confirms it; add FOO BAR posts the substitutes of FOO, '-', the
\* substitutes of BAR.
C8_OneRequestWithChainedName ==
    (last.op \in {"add", "delete"} /\ \A i \in 1..Len(last.args) : ~Invalid(last.args[i])) =>
        /\ Len(last.requests) = 1
        /\ last.requests[1].verb = (IF last.op = "add" THEN "POST" ELSE "DELETE")
        /\ last.requests[1].name = ExpectedName(last.args)
        /\ last.err \in {"none", "response"}
        /\ (last.op = "add" /\ last.err = "none") => last.requests[1].name \in store
        /\ (last.op = "delete" /\ last.err = "none") => last.requests[1].name \notin store
        /\ last.err = "none" =>
              /\ Len(last.sent) = 1
              /\ last.sent[1].name = last.requests[1].name
        /\ last.args = <<FOO, BAR>> =>
              last.requests[1].name =
                  <<"u1D5A5", "u1D5AE", "u1D5AE", "-", "u1D5A1", "u1D5A0", "u1D5B1">>

\* add FOO BAR was accepted: the store holds the one chained name.
C8_Witness ==
    /\ last.op = "add"
    /\ last.args = <<FOO, BAR>>
    /\ last.err = "none"
    /\ store = {<<"u1D5A5", "u1D5AE", "u1D5AE", "-", "u1D5A1", "u1D5A0", "u1D5B1">>}

\* A character a well-formed name may hold: a letter, a digit, an allowed
\* symbol or the substitute of one.
NameChar(c) == InAlphabet(c) \/ c \in {"u1C3", "uFF1F", "u2019"}

\* C10: every name that add posts and every name that delete puts in its
\* path has 2 to 96 characters, each a letter, a digit, an allowed symbol or
\* a substitute.
C10_RequestNamesWellFormed ==
    last.op \in {"add", "delete"} =>
        \A r \in 1..Len(last.requests) :
            /\ 2 <= Len(last.requests[r].name)
            /\ Len(last.requests[r].name) <= 96
            /\ Over(last.requests[r].name, NameChar)

(***************************************************************************)
(* Properties of the search command, checked under SpecSearch.             *)
(***************************************************************************)
\* query is a contiguous part of name.
IsSubstring(query, name) ==
    \E i \in 1..(Len(name) - Len(query) + 1) :
        SubSeq(name, i, i + Len(query) - 1) = query

\* F is a choice of at most 10 names of good, taken in descending
\* similarity: all of good when it has no more than 10, else 10 of them none
\* of which is less similar than a name left out.
TopTen(F, good, score) ==
    /\ F \subseteq good
    /\ Cardinality(F) = Min(10, Cardinality(good))
    /\ \A x \in F, y \in good \ F : score[x][1] * score[y][2] >= score[y][1] * score[x][2]

\* C9: a search with a valid query answers with the sorted, duplicate-free
\* lines of the union of every stored name that holds the query and of at
\* most 10 stored names whose similarity to the query is at least 0.70, the
\* most similar first; 'Nothing found.' is the answer exactly when that
\* union is empty.  With the substitutes of APPLE, APPLETREE and BANANA
\* stored, the query APPLE finds the first two.
C9_SearchResult ==
    (last.op = "search" /\ last.err = "none") =>
        LET query == [i \in 1..Len(last.args[1]) |-> Substitute(last.args[1][i])]
            lines == last.sent[1].lines
            found == {SubSeq(lines[i], 3, Len(lines[i])) : i \in 1..Len(lines)}
            inside == {name \in store : IsSubstring(query, name)}
            score == [name \in store |-> ratio(name, query)]
            good == {name \in store : score[name][1] * 100 >= 70 * score[name][2]}
        IN /\ Len(last.sent) = 1
           /\ \A i \in 1..Len(lines) : SubSeq(lines[i], 1, 2) = <<"u2022", " ">>
           /\ \A i \in 1..(Len(lines) - 1) : StrLess(lines[i], lines[i + 1])
           /\ inside \subseteq found
           /\ found \subseteq store
           /\ \E X \in SUBSET (inside \cap good) : TopTen((found \ inside) \cup X, good, score)
           /\ last.sent[1].text = (IF inside \cup good = {} THEN "Nothing found." ELSE "paginate")
           /\ (store = Fruit /\ last.args = <<APPLE>>) =>
                 found = {translate(APPLE), translate(APPLETREE)}

\* The store holds eleven names close to the query, ten of them holding it,
\* and one more that holds it without being close: the answer has the ten
\* and that one, and not the eleventh close name.
C9_Witness ==
    /\ store = Pool
    /\ last.op = "search"
    /\ last.err = "none"
    /\ last.args = <<NameQ>>
    /\ Len(last.sent[1].lines) = 11
    /\ \E i \in 1..11 : last.sent[1].lines[i] = <<"u2022", " ">> \o InOnly
    /\ \A i \in 1..11 : last.sent[1].lines[i] # <<"u2022", " ">> \o CloseOnly

====
